---- MODULE Spec2Model ----
(***************************************************************************)
(* EdDSA over a twisted Edwards curve (package eddsa: GenerateKey, Sign,   *)
(* Verify) and the Merkle-sum proof circuit (package merklesum).           *)
(*                                                                         *)
(* Byte arrays are functions with domain 0..n-1, as Go slices are indexed. *)
(* A big.Int is carried as the big-endian byte string it was set from;     *)
(* scalar multiplication walks its bits, and reduction modulo Order is     *)
(* done digit by digit, so no value leaves the range of machine integers.  *)
(* The curve is a twisted Edwards curve of the same shape as the           *)
(* production one (a = -1, d a non-square, cofactor 8, base point of prime *)
(* order Order) over a small prime field.                                  *)
(***************************************************************************)
EXTENDS Integers, Sequences, FiniteSets, TLC

\* ------------------------------------------------------------------ bounds
\* number of seeds GenerateKey is run on
NumSeeds == 2
\* messages are the first 1..MaxMsgLen bytes of "test"
MaxMsgLen == 1
\* number of goroutines calling Sign and Verify at the same time
NumProcs == 2
\* depth of the Merkle-sum tree; it has 2^MerkleDepth leaves
MerkleDepth == 2
\* number of leaf sets the Merkle-sum test draws from
NumTrees == 8

\* ------------------------------------------------------------- constants
sizeFr == 32

\* Operator arguments are evaluated when first used; Evaluated(v) is TRUE and
\* makes v be computed where it stands, so the loops below run step by step.
Evaluated(v) == v = v

\* --------------------------------------------------------- byte strings
Len0(a) == Cardinality(DOMAIN a)

Empty == [i \in {} |-> 0]

\* a[lo:hi]
Slice(a, lo, hi) == [i \in 0..(hi - lo - 1) |-> a[lo + i]]

\* append(a, b...)
Concat(a, b) ==
    LET n == Len0(a)
    IN  [i \in 0..(n + Len0(b) - 1) |-> IF i < n THEN a[i] ELSE b[i - n]]

\* make([]byte, n)
Zeros(n) == [i \in 0..(n - 1) |-> 0]

\* copy(dst[off:], src): as many bytes as fit
Copy(dst, off, src) ==
    [i \in DOMAIN dst |->
        IF i >= off /\ i - off < Len0(src) THEN src[i - off] ELSE dst[i]]

\* b with bit k (0 = least significant) inverted
FlipBitOfByte(b, k) ==
    LET w == 2 ^ k
    IN  IF (b \div w) % 2 = 1 THEN b - w ELSE b + w

\* a with bit k of the whole string inverted; bit 0 is the least significant
\* bit of the last byte
FlipBit(a, k) ==
    LET n == Len0(a)
        idx == n - 1 - (k \div 8)
    IN  [a EXCEPT ![idx] = FlipBitOfByte(a[idx], k % 8)]

\* ------------------------------------------------------- domain parameters
GetEdwardsCurve ==
    [ P        |-> 2381,
      A        |-> 2380,
      D        |-> 70,
      Base     |-> [X |-> 1581, Y |-> 1758],
      Order    |-> 307,
      Cofactor |-> 8 ]

\* ------------------------------------------------------ field arithmetic
FP == GetEdwardsCurve.P

FAdd(x, y) == (x + y) % FP
FSub(x, y) == (x - y + FP) % FP
FMul(x, y) == (x * y) % FP

RECURSIVE FPow(_, _)
FPow(x, e) ==
    IF e = 0 THEN 1
    ELSE LET hlf == FPow(x, e \div 2)
             sq == FMul(hlf, hlf)
         IN  IF e % 2 = 1 THEN FMul(sq, x) ELSE sq

\* the inverses of the field's elements (x^(P-2)); the inverse of 0 is 0
InverseTable == [x \in 0..(FP - 1) |-> FPow(x, FP - 2)] @@ Empty

\* fr.Element.Inverse
FInv(x) == InverseTable[x]

FDiv(x, y) == FMul(x, FInv(y))

\* the shortest big-endian encoding of n (empty for 0)
RECURSIVE IntBytes(_)
IntBytes(n) ==
    IF n = 0 THEN Empty
    ELSE Concat(IntBytes(n \div 256), [i \in 0..0 |-> n % 256])

\* big.Int.Bytes
BigBytes(n) == IntBytes(n)

\* fr.Element.Bytes: sizeFr bytes, big endian
FrBytes(x) ==
    LET b == IntBytes(x)
    IN  Concat(Zeros(sizeFr - Len0(b)), b)

\* ------------------------------------------------------- point arithmetic
Identity == [X |-> 0, Y |-> 1]

IsOnCurve(pt) ==
    LET c == GetEdwardsCurve
        xx == FMul(pt.X, pt.X)
        yy == FMul(pt.Y, pt.Y)
        lhs == FAdd(FMul(c.A, xx), yy)
        rhs == FAdd(1, FMul(c.D, FMul(xx, yy)))
    IN  lhs = rhs

PointAdd(p1, p2) ==
    LET c == GetEdwardsCurve
        xv == FMul(p1.X, p2.Y)
        yu == FMul(p1.Y, p2.X)
        xu == FMul(FMul(p1.X, p2.X), c.A)
        yv == FMul(p1.Y, p2.Y)
        dxyuv == FMul(FMul(xv, yu), c.D)
    IN  [X |-> FDiv(FAdd(xv, yu), FAdd(1, dxyuv)),
         Y |-> FDiv(FSub(yv, xu), FSub(1, dxyuv))]

PointDouble(p1) ==
    LET c == GetEdwardsCurve
        xx == FMul(p1.X, p1.X)
        yy == FMul(p1.Y, p1.Y)
        xy == FMul(p1.X, p1.Y)
        denum == FAdd(FMul(xx, c.A), yy)
    IN  [X |-> FDiv(FAdd(xy, xy), denum),
         Y |-> FDiv(FSub(yy, FMul(xx, c.A)), FSub(2, denum))]

\* one step of double-and-add: double, then add p1 when the bit is set
MulBit(res, p1, bit) ==
    LET dd == PointDouble(res)
    IN  IF bit = 1 THEN PointAdd(dd, p1) ELSE dd

\* bits k..0 of one byte of the scalar, most significant first
RECURSIVE MulByte(_, _, _, _)
MulByte(res, p1, b, k) ==
    LET nx == MulBit(res, p1, (b \div (2 ^ k)) % 2)
    IN  IF k = 0 \/ ~Evaluated(nx) THEN nx ELSE MulByte(nx, p1, b, k - 1)

\* double-and-add over bytes lo..hi-1 of the scalar, in order
RECURSIVE MulLoop(_, _, _, _, _)
MulLoop(res, p1, scalar, lo, hi) ==
    IF hi <= lo THEN res
    ELSE IF hi = lo + 1 THEN MulByte(res, p1, scalar[lo], 7)
    ELSE LET mid == (lo + hi) \div 2
             left == MulLoop(res, p1, scalar, lo, mid)
         IN  IF Evaluated(left) THEN MulLoop(left, p1, scalar, mid, hi) ELSE left

\* big.Int.SetBytes ignores leading zero bytes
RECURSIVE FirstNonZero(_, _)
FirstNonZero(a, i) ==
    IF i >= Len0(a) THEN i
    ELSE IF a[i] # 0 THEN i ELSE FirstNonZero(a, i + 1)

ScalarMul(p1, scalar) ==
    MulLoop(Identity, p1, scalar, FirstNonZero(scalar, 0), Len0(scalar))

\* the residue modulo n of the integer whose big-endian bytes lo..hi-1 of a
\* extend the residue acc
RECURSIVE ModLoop(_, _, _, _, _)
ModLoop(a, n, lo, hi, acc) ==
    IF hi <= lo THEN acc
    ELSE IF hi = lo + 1 THEN (acc * 256 + a[lo]) % n
    ELSE LET mid == (lo + hi) \div 2
             left == ModLoop(a, n, lo, mid, acc)
         IN  IF Evaluated(left) THEN ModLoop(a, n, mid, hi, left) ELSE left

BytesMod(a, n) == IF Evaluated(a) THEN ModLoop(a, n, 0, Len0(a), 0) ELSE 0

\* ----------------------------------------------------------------- hashes
\* The hash functions are collaborators of the package; each is a
\* deterministic function of the bytes written, with a fixed digest length.
RECURSIVE Absorb(_, _, _, _)
Absorb(data, lo, hi, acc) ==
    IF hi <= lo THEN acc
    ELSE IF hi = lo + 1 THEN (acc * 33 + data[lo] + 1) % 1000003
    ELSE LET mid == (lo + hi) \div 2
             left == Absorb(data, lo, mid, acc)
         IN  IF Evaluated(left) THEN Absorb(data, mid, hi, left) ELSE left

Stir(x) == (x * 75 + 74) % 65537

\* n digest bytes from the absorbed state
Squeeze(st, n) == [i \in 0..(n - 1) |-> Stir(Stir((st + 131 * i) % 65537)) % 256]

Digest(data, salt, n) ==
    IF Evaluated(data)
    THEN Squeeze(Absorb(data, 0, Len0(data), salt + Len0(data)) % 65537, n)
    ELSE Empty

\* blake2b.Sum512: a 64-byte digest
Sum512(data) == Digest(data, 5381, 64)

\* hash.Hash: the bytes written since the last Reset, and the kind of hash.
\* "h32" has a 32-byte digest, "h1" a 1-byte digest, and "failing" is a
\* hash whose Write returns an error.
HashKinds == {"h32", "h1", "failing"}

NewHash(kind) == [kind |-> kind, buf |-> Empty]

HashReset(hf) == [hf EXCEPT !.buf = Empty]

HashWrite(hf, data) ==
    IF hf.kind = "failing"
    THEN [h |-> hf, err |-> "hash write"]
    ELSE [h |-> [hf EXCEPT !.buf = Concat(hf.buf, data)], err |-> "nil"]

HashSum(hf) ==
    IF hf.kind = "h1" THEN Digest(hf.buf, 17, 1) ELSE Digest(hf.buf, 40503, 32)

\* ------------------------------------------------------------------ eddsa
errNotOnCurve == "point not on curve"

NoSignature == [R |-> [X |-> 0, Y |-> 0], S |-> Zeros(sizeFr)]

\* h[0] &= 0xF8; h[31] &= 0x7F; h[31] |= 0x40
Prune(h) ==
    LET h1 == [h EXCEPT ![0] = (h[0] \div 8) * 8]
        h2 == [h1 EXCEPT ![31] = h1[31] % 128]
    IN  [h2 EXCEPT ![31] = IF (h2[31] \div 64) % 2 = 1 THEN h2[31] ELSE h2[31] + 64]

\* for i, j := 0, sizeFr; i < j; i, j = i+1, j-1 { h[i], h[j] = h[j], h[i] }
RECURSIVE ReverseLoop(_, _, _)
ReverseLoop(h, i, j) ==
    IF i < j
    THEN ReverseLoop([h EXCEPT ![i] = h[j], ![j] = h[i]], i + 1, j - 1)
    ELSE h

GenerateKey(seed) ==
    LET c == GetEdwardsCurve
        h0 == Sum512(seed)
        randSrc == [i \in 0..31 |-> h0[i + 32]]
        h == ReverseLoop(Prune(h0), 0, sizeFr)
        scalar == Slice(h, 0, sizeFr)
        pub == [A |-> ScalarMul(c.Base, scalar)]
    IN  [pub |-> pub,
         priv |-> [PublicKey |-> pub, scalar |-> scalar, randSrc |-> randSrc]]

\* DataToHash with the last copy left out: the message bytes stay zero
DataToHashWithoutMessage(R, A, message) ==
    LET d0 == Zeros(4 * sizeFr + Len0(message))
        d1 == Copy(d0, 0, FrBytes(R.X))
        d2 == Copy(d1, sizeFr, FrBytes(R.Y))
        d3 == Copy(d2, 2 * sizeFr, FrBytes(A.X))
    IN  Copy(d3, 3 * sizeFr, FrBytes(A.Y))

\* H(R, A, M): R.X || R.Y || A.X || A.Y || message
DataToHash(R, A, message) ==
    LET d0 == Zeros(4 * sizeFr + Len0(message))
        d1 == Copy(d0, 0, FrBytes(R.X))
        d2 == Copy(d1, sizeFr, FrBytes(R.Y))
        d3 == Copy(d2, 2 * sizeFr, FrBytes(A.X))
        d4 == Copy(d3, 3 * sizeFr, FrBytes(A.Y))
    IN  Copy(d4, 4 * sizeFr, message)

\* blindingFactorBigInt = h(randSrc || message)[:sizeFr]
BlindingFactor(privKey, message) ==
    LET randSrc == Copy(Copy(Zeros(32 + Len0(message)), 0, privKey.randSrc),
                        32, message)
    IN  Slice(Sum512(randSrc), 0, sizeFr)

\* MulAddMod with the Add left out
MulAddModWithoutBlinding(hramBin, scalar, blinding, order) ==
    (BytesMod(hramBin, order) * BytesMod(scalar, order)) % order

\* bs = (hramInt * bscalar + blindingFactorBigInt) mod Order, the operands
\* given by their bytes
MulAddMod(hramBin, scalar, blinding, order) ==
    (BytesMod(hramBin, order) * BytesMod(scalar, order)
        + BytesMod(blinding, order)) % order

\* ScalarBytes with the padding left out: bs.Bytes() copied to the front of S
ScalarBytesUnpadded(bs) == Copy(Zeros(sizeFr), 0, BigBytes(bs))

\* s as sizeFr bytes: bs.Bytes(), zero bytes put in front when shorter
ScalarBytes(bs) ==
    LET sb == BigBytes(bs)
        padded == IF Len0(sb) < sizeFr
                  THEN Concat(Zeros(sizeFr - Len0(sb)), sb)
                  ELSE sb
    IN  Copy(Zeros(sizeFr), 0, padded)

\* the part of Sign before the hash function is used: its variables then
SignStart(privKey, message) ==
    LET blinding == BlindingFactor(privKey, message)
        R == ScalarMul(GetEdwardsCurve.Base, blinding)
    IN  IF ~IsOnCurve(R) THEN [err |-> errNotOnCurve]
        ELSE [err |-> "nil", blinding |-> blinding, R |-> R,
              dataToHash |-> DataToHash(R, privKey.PublicKey.A, message)]

\* the part of Sign after the challenge digest is known
SignResponse(privKey, blinding, hramBin) ==
    ScalarBytes(MulAddMod(hramBin, privKey.scalar, blinding,
                          GetEdwardsCurve.Order))

Sign(privKey, message, hFunc) ==
    LET c == GetEdwardsCurve
        blinding == BlindingFactor(privKey, message)
        R == ScalarMul(c.Base, blinding)
        w == HashWrite(HashReset(hFunc),
                       DataToHash(R, privKey.PublicKey.A, message))
    IN  IF ~IsOnCurve(R)
        THEN [sig |-> NoSignature, err |-> errNotOnCurve, hFunc |-> hFunc]
        ELSE IF w.err # "nil"
        THEN [sig |-> NoSignature, err |-> w.err, hFunc |-> w.h]
        ELSE [sig |-> [R |-> R,
                       S |-> SignResponse(privKey, blinding, HashSum(w.h))],
              err |-> "nil", hFunc |-> w.h]

\* VerifyLhs reading S without its first byte
VerifyLhsShort(sig) ==
    LET c == GetEdwardsCurve
    IN  ScalarMul(ScalarMul(c.Base, Slice(sig.S, 1, sizeFr)),
                  BigBytes(c.Cofactor))

\* lhs = cofactor*S*Base
VerifyLhs(sig) ==
    LET c == GetEdwardsCurve
    IN  ScalarMul(ScalarMul(c.Base, sig.S), BigBytes(c.Cofactor))

\* rhs = cofactor*(R + H(R,A,M)*A)
VerifyRhs(sig, pub, hramBin) ==
    LET c == GetEdwardsCurve
    IN  ScalarMul(PointAdd(ScalarMul(pub.A, hramBin), sig.R),
                  BigBytes(c.Cofactor))

\* a PointAffine variable before it is assigned
ZeroPoint == [X |-> 0, Y |-> 0]

\* what Verify returns, with its hash instance and its variables lhs and rhs
\* as they are when it returns
Returned(ok, err, hFunc, lhs, rhs) ==
    [ok |-> ok, err |-> err, hFunc |-> hFunc, lhs |-> lhs, rhs |-> rhs]

\* VerifyEquation returning the error for a mismatch as well
VerifyEquationStrict(lhs, rhs, hFunc) ==
    IF ~IsOnCurve(lhs) THEN Returned(FALSE, errNotOnCurve, hFunc, lhs, ZeroPoint)
    ELSE IF ~IsOnCurve(rhs) THEN Returned(FALSE, errNotOnCurve, hFunc, lhs, rhs)
    ELSE IF lhs.X # rhs.X \/ lhs.Y # rhs.Y
    THEN Returned(FALSE, errNotOnCurve, hFunc, lhs, rhs)
    ELSE Returned(TRUE, "nil", hFunc, lhs, rhs)

\* the part of Verify before the hash function is used: its variables then
VerifyStart(sig, message, pub) ==
    IF ~IsOnCurve(pub.A) THEN [err |-> errNotOnCurve]
    ELSE [err |-> "nil", dataToHash |-> DataToHash(sig.R, pub.A, message)]

\* the part of Verify after the challenge digest is known
VerifyEquation(lhs, rhs, hFunc) ==
    IF ~IsOnCurve(lhs) THEN Returned(FALSE, errNotOnCurve, hFunc, lhs, ZeroPoint)
    ELSE IF ~IsOnCurve(rhs) THEN Returned(FALSE, errNotOnCurve, hFunc, lhs, rhs)
    ELSE IF lhs.X # rhs.X \/ lhs.Y # rhs.Y
    THEN Returned(FALSE, "nil", hFunc, lhs, rhs)
    ELSE Returned(TRUE, "nil", hFunc, lhs, rhs)

Verify(sig, message, pub, hFunc) ==
    LET w == HashWrite(HashReset(hFunc), DataToHash(sig.R, pub.A, message))
    IN  IF ~IsOnCurve(pub.A)
        THEN Returned(FALSE, errNotOnCurve, hFunc, ZeroPoint, ZeroPoint)
        ELSE IF w.err # "nil"
        THEN Returned(FALSE, w.err, w.h, ZeroPoint, ZeroPoint)
        ELSE VerifyEquation(VerifyLhs(sig), VerifyRhs(sig, pub, HashSum(w.h)),
                            w.h)

\* ------------------------------------------------- callers of the package
VARIABLES
    pc,       \* where the caller stands: start, keyed, signed, verified, done
    seed,     \* the seed handed to GenerateKey
    keys,     \* what GenerateKey returned: [pub, priv]
    message,  \* the message handed to Sign
    signed,   \* what Sign returned: [sig, err, hFunc]
    vIn,      \* the arguments of the latest Verify call: [sig, message, pub]
    vOut,     \* what it returned: [ok, err, hFunc, lhs, rhs]
    prev,     \* the Verify call before it: [vIn, vOut, change]
    change    \* how vIn was made from prev.vIn: [kind, bit]

\* goroutines calling Sign and Verify at the same time
VARIABLES
    objects,  \* the PrivateKey, PublicKey, Signature and message they are given
    alone,    \* what each call returns when it is the only one running
    hashes,   \* the hash.Hash instances
    cpc,      \* where each goroutine stands: idle, called, reset, written, done
    call,     \* the call of each: [op, message, hf], hf its hash instance
    local,    \* the variables of each call
    ret       \* what each call returned

\* TestVerify of the merklesum package
VARIABLES
    mpc,         \* where the test stands
    leaves,      \* the data and the balance of each leaf
    proofIndex,  \* the index of the leaf proved
    built,       \* what BuildReaderProof returned: [merkleRoot, proofPath]
    verified,    \* what the plain VerifyProof returned
    witness,     \* the assignment of the circuit MerkleProofTest
    solved       \* whether the assignment satisfies the circuit

callerVars == <<pc, seed, keys, message, signed, vIn, vOut, prev, change>>
concVars == <<objects, alone, hashes, cpc, call, local, ret>>
merkleVars == <<mpc, leaves, proofIndex, built, verified, witness, solved>>
vars == <<callerVars, concVars, merkleVars>>

\* seed 0 is 32 zero bytes
Seeds == {[i \in 0..31 |-> (s * 17 + i * s) % 256] : s \in 0..(NumSeeds - 1)}

\* "test"
Text == <<116, 101, 115, 116>>

Messages == {[i \in 0..(n - 1) |-> Text[i + 1]] : n \in 1..MaxMsgLen}

\* a point (x, i*x) with i*i = a: it is not on the curve, and PointDouble
\* takes it to (1/i, 0), which is on the curve and of order 4
OffCurvePoint == [X |-> 5, Y |-> 345]

\* arguments for Verify that no Sign call made
Forgeries ==
    { [sig |-> [R |-> Identity, S |-> Zeros(sizeFr)], pub |-> [A |-> Identity]],
      [sig |-> [R |-> OffCurvePoint, S |-> Zeros(sizeFr)], pub |-> [A |-> Identity]],
      [sig |-> [R |-> Identity, S |-> Zeros(sizeFr)], pub |-> [A |-> OffCurvePoint]] }

Tamperings ==
    {"R on curve", "R off curve", "A on curve", "A off curve", "S plus Order"}

\* the sizeFr bytes of S + Order, for S below Order
PlusOrder(S) ==
    LET v == S[sizeFr - 2] * 256 + S[sizeFr - 1] + GetEdwardsCurve.Order
    IN  [S EXCEPT ![sizeFr - 2] = v \div 256, ![sizeFr - 1] = v % 256]

Tampered(in, how) ==
    LET base == GetEdwardsCurve.Base
        off == [X |-> 1, Y |-> 1]
    IN  CASE how = "R on curve"  ->
               [in EXCEPT !.sig = [R |-> base, S |-> in.sig.S]]
          [] how = "R off curve" ->
               [in EXCEPT !.sig = [R |-> off, S |-> in.sig.S]]
          [] how = "A on curve"  -> [in EXCEPT !.pub = [A |-> base]]
          [] how = "A off curve" -> [in EXCEPT !.pub = [A |-> off]]
          [] OTHER               ->
               [in EXCEPT !.sig = [R |-> in.sig.R, S |-> PlusOrder(in.sig.S)]]

None == [kind |-> "none"]

InitCallers ==
    /\ pc = "start"
    /\ seed = None
    /\ keys = None
    /\ message = None
    /\ signed = None
    /\ vIn = None
    /\ vOut = None
    /\ prev = None
    /\ change = None

\* pub, priv := GenerateKey(seed)
DoGenerateKey ==
    /\ pc = "start"
    /\ \E s \in Seeds :
        /\ seed' = s
        /\ keys' = GenerateKey(s)
    /\ pc' = "keyed"
    /\ UNCHANGED <<message, signed, vIn, vOut, prev, change>>
    /\ UNCHANGED <<concVars, merkleVars>>

\* sig, err := priv.Sign(message, hFunc)
DoSign ==
    /\ pc = "keyed"
    /\ \E m \in Messages, kind \in HashKinds :
        /\ message' = m
        /\ signed' = Sign(keys.priv, m, NewHash(kind))
    /\ pc' = IF signed'.err = "nil" THEN "signed" ELSE "done"
    /\ UNCHANGED <<seed, keys, vIn, vOut, prev, change>>
    /\ UNCHANGED <<concVars, merkleVars>>

\* ok, err := Verify(in.sig, in.message, &in.pub, hf), remembering the call
\* before it
CallVerify(in, hf, how) ==
    /\ vIn' = in
    /\ vOut' = Verify(in.sig, in.message, in.pub, hf)
    /\ prev' = [vIn |-> vIn, vOut |-> vOut, change |-> change]
    /\ change' = how
    /\ UNCHANGED <<seed, keys, message, signed>>
    /\ UNCHANGED <<concVars, merkleVars>>

\* the signature Sign returned, verified with the same hash instance
VerifySigned ==
    /\ pc = "signed"
    /\ CallVerify([sig |-> signed.sig, message |-> message, pub |-> keys.pub],
                  signed.hFunc, [kind |-> "signed"])
    /\ pc' = "verified"

\* a signature that was not made by Sign
VerifyForged ==
    /\ pc = "start"
    /\ \E f \in Forgeries, m \in Messages, kind \in HashKinds :
        CallVerify([sig |-> f.sig, message |-> m, pub |-> f.pub],
                   NewHash(kind), [kind |-> "forged"])
    /\ pc' = "verified"

\* the signed signature, message and key with R, A or S replaced
VerifyTampered ==
    /\ pc = "verified"
    /\ change.kind = "signed"
    /\ \E how \in Tamperings :
        CallVerify(Tampered(vIn, how), vOut.hFunc,
                   [kind |-> "tampered", how |-> how])
    /\ pc' = "verified"

\* an accepted signature with one bit of S inverted
VerifyFlippedS ==
    /\ pc = "verified"
    /\ vOut.ok
    /\ \E k \in 0..(8 * sizeFr - 1) :
        CallVerify([sig |-> [R |-> vIn.sig.R, S |-> FlipBit(vIn.sig.S, k)],
                    message |-> vIn.message, pub |-> vIn.pub], vOut.hFunc,
                   [kind |-> "flipS", bit |-> k])
    /\ pc' = "done"

\* an accepted signature verified against the message with one bit inverted
VerifyFlippedMessage ==
    /\ pc = "verified"
    /\ vOut.ok
    /\ \E k \in 0..(8 * Len0(vIn.message) - 1) :
        CallVerify([sig |-> vIn.sig, message |-> FlipBit(vIn.message, k),
                    pub |-> vIn.pub], vOut.hFunc,
                   [kind |-> "flipMsg", bit |-> k])
    /\ pc' = "done"

Next ==
    \/ DoGenerateKey
    \/ DoSign
    \/ VerifySigned
    \/ VerifyForged
    \/ VerifyTampered
    \/ VerifyFlippedS
    \/ VerifyFlippedMessage

\* ------------------------------------------------------ concurrent callers
Procs == 1..NumProcs

\* hash instance p is the one made for goroutine p
HashIds == Procs

ZeroSeed == [i \in 0..31 |-> 0]

\* "t", and "t" with its lowest bit inverted
ConcMessages ==
    LET t == [i \in 0..0 |-> Text[1]]
    IN  {t, FlipBit(t, 0)}

\* a key pair of GenerateKey and a signature of Sign for "t"
SharedObjects ==
    LET k == GenerateKey(ZeroSeed)
        t == [i \in 0..0 |-> Text[1]]
    IN  [priv |-> k.priv, pub |-> k.pub, message |-> t,
         sig |-> Sign(k.priv, t, NewHash("h32")).sig]

\* the calls a goroutine makes: Sign of a message, or Verify of the signature
\* with the message it was made for
ConcCalls(signedMessage) ==
    {[op |-> "Sign", message |-> m] : m \in ConcMessages}
        \cup {[op |-> "Verify", message |-> signedMessage]}

\* what a call returns: Sign a signature and an error, Verify a boolean and
\* an error
SignReturns(sig, err) == [sig |-> sig, err |-> err]
VerifyReturns(ok, err) == [ok |-> ok, err |-> err]

\* the call c run alone on the objects o, with a hash instance of its own
Alone(c, o) ==
    IF c.op = "Sign"
    THEN LET r == Sign(o.priv, c.message, NewHash("h32"))
         IN  SignReturns(r.sig, r.err)
    ELSE LET r == Verify(o.sig, c.message, o.pub, NewHash("h32"))
         IN  VerifyReturns(r.ok, r.err)

\* every call given instance 1, whatever its hFunc argument
HashOfFirst(p) == 1

\* the hFunc argument of the call of goroutine p
HashOf(p) == call[p].hf

InitConc ==
    /\ objects = SharedObjects
    /\ alone = [c \in ConcCalls(objects.message) |-> Alone(c, objects)]
    /\ hashes = [h \in HashIds |-> NewHash("h32")]
    /\ cpc = [p \in Procs |-> "idle"]
    /\ call = [p \in Procs |-> None]
    /\ local = [p \in Procs |-> None]
    /\ ret = [p \in Procs |-> None]

ErrorReturn(op, err) ==
    IF op = "Sign" THEN SignReturns(NoSignature, err)
    ELSE VerifyReturns(FALSE, err)

\* goroutine p calls Sign or Verify with its own hash instance or with
\* instance 1, and runs the call up to hFunc.Reset()
ConcCall(p) ==
    /\ cpc[p] = "idle"
    /\ \E c \in ConcCalls(objects.message), h \in {p, 1} :
        /\ call' = [call EXCEPT ![p] = [op |-> c.op, message |-> c.message, hf |-> h]]
        /\ local' = [local EXCEPT ![p] =
                        IF c.op = "Sign"
                        THEN SignStart(objects.priv, c.message)
                        ELSE VerifyStart(objects.sig, c.message, objects.pub)]
        /\ ret' = [ret EXCEPT ![p] =
                      IF local'[p].err = "nil" THEN None
                      ELSE ErrorReturn(c.op, local'[p].err)]
    /\ cpc' = [cpc EXCEPT ![p] = IF local'[p].err = "nil" THEN "called" ELSE "done"]
    /\ UNCHANGED <<objects, alone, hashes>>
    /\ UNCHANGED <<callerVars, merkleVars>>

\* hFunc.Reset()
ConcReset(p) ==
    /\ cpc[p] = "called"
    /\ hashes' = [hashes EXCEPT ![HashOf(p)] = HashReset(@)]
    /\ cpc' = [cpc EXCEPT ![p] = "reset"]
    /\ UNCHANGED <<objects, alone, call, local, ret>>
    /\ UNCHANGED <<callerVars, merkleVars>>

\* _, err := hFunc.Write(dataToHash[:]); if err != nil { return ..., err }
ConcWrite(p) ==
    /\ cpc[p] = "reset"
    /\ LET w == HashWrite(hashes[HashOf(p)], local[p].dataToHash)
       IN  /\ hashes' = [hashes EXCEPT ![HashOf(p)] = w.h]
           /\ ret' = [ret EXCEPT ![p] =
                         IF w.err = "nil" THEN None
                         ELSE ErrorReturn(call[p].op, w.err)]
           /\ cpc' = [cpc EXCEPT ![p] = IF w.err = "nil" THEN "written" ELSE "done"]
    /\ UNCHANGED <<objects, alone, call, local>>
    /\ UNCHANGED <<callerVars, merkleVars>>

\* hramBin := hFunc.Sum([]byte{}), and the rest of the call
ConcSum(p) ==
    /\ cpc[p] = "written"
    /\ ret' = [ret EXCEPT ![p] =
          LET hf == hashes[HashOf(p)]
          IN  IF call[p].op = "Sign"
              THEN SignReturns([R |-> local[p].R,
                                S |-> SignResponse(objects.priv, local[p].blinding,
                                                   HashSum(hf))],
                               "nil")
              ELSE LET r == VerifyEquation(VerifyLhs(objects.sig),
                                           VerifyRhs(objects.sig, objects.pub,
                                                     HashSum(hf)),
                                           hf)
                   IN  VerifyReturns(r.ok, r.err)]
    /\ cpc' = [cpc EXCEPT ![p] = "done"]
    /\ UNCHANGED <<objects, alone, hashes, call, local>>
    /\ UNCHANGED <<callerVars, merkleVars>>

NextConc ==
    \E p \in Procs :
        \/ ConcCall(p)
        \/ ConcReset(p)
        \/ ConcWrite(p)
        \/ ConcSum(p)

\* -------------------------------------------------------------- merklesum
\* the scalar field of the circuit
ScalarField == 2 ^ 8 - 5

\* the MiMC hash of the circuit: Reset, Write(data...), Sum
RECURSIVE MimcLoop(_, _, _)
MimcLoop(data, i, acc) ==
    IF i > Len(data) THEN acc
    ELSE MimcLoop(data, i + 1,
                  ((acc + data[i] + 3) ^ 3 + acc + data[i]) % ScalarField)

MimcSum(data) == MimcLoop(data, 1, 0)

leafHash(data) == MimcSum(<<data>>)

nodeHash(a, b) == MimcSum(<<a, b>>)

nodeSum(a, b) == (a + b) % ScalarField

numLeaves == 2 ^ MerkleDepth

\* a frontend.Variable: assigned a value, or not assigned
Assigned(v) == [set |-> TRUE, val |-> v]
Unassigned == [set |-> FALSE]

\* the leaves the test draws with rand.Int: data in buf1, balances in buf2
RandomLeaves(t) ==
    [i \in 0..(numLeaves - 1) |->
        [data |-> (t * 37 + i * 11 + 1) % ScalarField,
         balance |-> (t * 5 + i * 3 + 2) % ScalarField]]

\* the hash and the sum of the subtree over leaves lo..lo+size-1
RECURSIVE Subtree(_, _, _)
Subtree(ls, lo, size) ==
    IF size = 1
    THEN [Hash |-> leafHash(ls[lo].data), Sum |-> ls[lo].balance]
    ELSE LET l == Subtree(ls, lo, size \div 2)
             r == Subtree(ls, lo + size \div 2, size \div 2)
         IN  [Hash |-> nodeHash(l.Hash, r.Hash), Sum |-> nodeSum(l.Sum, r.Sum)]

\* the sibling, at height i - 1, of the path from leaf index up
Sibling(ls, index, i) ==
    LET size == 2 ^ (i - 1)
        at == index \div size
    IN  Subtree(ls, (IF at % 2 = 0 THEN at + 1 ELSE at - 1) * size, size)

\* merkleSum.BuildReaderProof: the root, and the path of leaf proofIndex,
\* the leaf first and then the siblings from the bottom up
BuildReaderProof(ls, index) ==
    [merkleRoot |-> Subtree(ls, 0, numLeaves),
     proofPath |->
        [Hash |-> [i \in 0..MerkleDepth |->
                      IF i = 0 THEN ls[index].data ELSE Sibling(ls, index, i).Hash],
         Sum |-> [i \in 0..MerkleDepth |->
                      IF i = 0 THEN ls[index].balance ELSE Sibling(ls, index, i).Sum]]]

\* the fold of a path from the leaf to the root, bit i - 1 of the binary
\* decomposition telling whether the node at height i - 1 is a right child
RECURSIVE FoldPath(_, _, _, _, _, _)
FoldPath(PathHash, PathSum, binLeaf, i, hash, sum) ==
    IF i > MerkleDepth THEN [Hash |-> hash, Sum |-> sum]
    ELSE LET d1 == IF binLeaf[i - 1] = 1 THEN PathHash[i] ELSE hash
             d2 == IF binLeaf[i - 1] = 1 THEN hash ELSE PathHash[i]
         IN  FoldPath(PathHash, PathSum, binLeaf, i + 1, nodeHash(d1, d2),
                      nodeSum(sum, PathSum[i]))

\* api.ToBinary(v, n): the n bits of v, lowest first
ToBinary(v, n) == [i \in 0..(n - 1) |-> (v \div (2 ^ i)) % 2]

\* merkleSum.VerifyProof of the plain code
PlainVerifyProof(merkleRoot, proofPath, index) ==
    FoldPath(proofPath.Hash, proofPath.Sum, ToBinary(index, MerkleDepth), 1,
             leafHash(proofPath.Hash[0]), proofPath.Sum[0]) = merkleRoot

\* MerkleSumProof.VerifyProof of the circuit, for an assignment: whether its
\* constraints hold
VerifyProof(mp, leaf) ==
    IF ~leaf.data.set THEN "unassigned variable"
    ELSE IF leaf.data.val >= 2 ^ MerkleDepth THEN "unsatisfied"
    ELSE LET top == FoldPath(mp.PathHash, mp.PathSum,
                             ToBinary(leaf.data.val, MerkleDepth), 1,
                             leafHash(mp.PathHash[0]), mp.PathSum[0])
         IN  IF top.Hash = mp.RootHash /\ top.Sum = mp.RootSum
             THEN "satisfied"
             ELSE "unsatisfied"

\* MerkleProofTest.Define
Define(mp) == VerifyProof(mp.M, mp.Leaf)

InitMerkle ==
    /\ mpc = "start"
    /\ leaves = None
    /\ proofIndex = None
    /\ built = None
    /\ verified = None
    /\ witness = None
    /\ solved = None

\* for proofIndex := 0; proofIndex < numLeaves: the leaves are drawn
DrawLeaves ==
    /\ mpc = "start"
    /\ \E index \in 0..(numLeaves - 1), t \in 0..(NumTrees - 1) :
        /\ proofIndex' = index
        /\ leaves' = RandomLeaves(t)
    /\ mpc' = "drawn"
    /\ UNCHANGED <<built, verified, witness, solved>>
    /\ UNCHANGED <<callerVars, concVars>>

\* merkleRoot, proofPath, numLeaves, err := merkleSum.BuildReaderProof(...)
BuildProof ==
    /\ mpc = "drawn"
    /\ built' = BuildReaderProof(leaves, proofIndex)
    /\ mpc' = "built"
    /\ UNCHANGED <<leaves, proofIndex, verified, witness, solved>>
    /\ UNCHANGED <<callerVars, concVars>>

\* verified := merkleSum.VerifyProof(...); if !verified { t.Fatal }
VerifyPlain ==
    /\ mpc = "built"
    /\ verified' = PlainVerifyProof(built.merkleRoot, built.proofPath, proofIndex)
    /\ mpc' = IF verified' THEN "verified" ELSE "failed"
    /\ UNCHANGED <<leaves, proofIndex, built, witness, solved>>
    /\ UNCHANGED <<callerVars, concVars>>

\* the witness: Index, M.RootHash, M.RootSum, M.PathHash and M.PathSum are
\* assigned; Leaf is not
AssignWitness ==
    /\ mpc = "verified"
    /\ witness' =
          [Index |-> Assigned(proofIndex),
           M |-> [RootHash |-> built.merkleRoot.Hash,
                  RootSum |-> built.merkleRoot.Sum,
                  PathHash |-> built.proofPath.Hash,
                  PathSum |-> built.proofPath.Sum],
           Leaf |-> [data |-> Unassigned, balance |-> Unassigned]]
    /\ mpc' = "assigned"
    /\ UNCHANGED <<leaves, proofIndex, built, verified, solved>>
    /\ UNCHANGED <<callerVars, concVars>>

\* err = cc.IsSolved(w, ...); if err != nil { t.Fatal(err) }
Solve ==
    /\ mpc = "assigned"
    /\ solved' = Define(witness)
    /\ mpc' = IF solved' = "satisfied" THEN "solved" ELSE "failed"
    /\ UNCHANGED <<leaves, proofIndex, built, verified, witness>>
    /\ UNCHANGED <<callerVars, concVars>>

NextMerkle ==
    \/ DrawLeaves
    \/ BuildProof
    \/ VerifyPlain
    \/ AssignWitness
    \/ Solve

\* --------------------------------------------------------- specifications
Init == InitCallers /\ InitConc /\ InitMerkle

Spec == Init /\ [][Next]_vars

SpecConc == Init /\ [][NextConc]_vars

SpecMerkle == Init /\ [][NextMerkle]_vars

\* ------------------------------------------- properties of the eddsa calls
\* a Verify call has returned
Verified == vOut # None

\* the latest Verify call was given what Sign returned, the message signed
\* and the public key of GenerateKey
VerifiedSigned == Verified /\ change.kind = "signed"

\* n below 2^31 as sizeFr big-endian bytes
Encode32(n) ==
    [i \in 0..(sizeFr - 1) |->
        IF i < sizeFr - 4 THEN 0 ELSE (n \div (256 ^ (sizeFr - 1 - i))) % 256]

\* C1: a signature that Sign returned without error for a key of GenerateKey
\* is accepted by Verify, with no error, for the same message, public key and
\* hash function.
C1_SignThenVerify ==
    (VerifiedSigned /\ signed.err = "nil") => (vOut.ok /\ vOut.err = "nil")

C1_Witness ==
    /\ VerifiedSigned
    /\ signed.err = "nil"
    /\ vOut.ok
    /\ vIn.sig = signed.sig
    /\ vIn.pub = keys.pub

\* C2: the scalar stored in the private key has the low 3 bits of its
\* lowest-order byte clear and, in its highest-order byte, bit 7 clear and bit
\* 6 set. The scalar is big-endian: scalar[sizeFr - 1] is its lowest-order byte.
C2_Clamped ==
    keys # None =>
        LET scalar == keys.priv.scalar
        IN  /\ scalar[sizeFr - 1] % 8 = 0
            /\ scalar[0] \div 128 = 0
            /\ (scalar[0] \div 64) % 2 = 1

\* a key whose stored scalar does not have the clamping pattern
C2_Unclamped ==
    /\ keys # None
    /\ keys.priv.scalar[sizeFr - 1] % 8 # 0

\* C3: an accepted signature with one bit of S inverted, and R, the message
\* and the public key unchanged, is not accepted.
C3_FlippedSRejected ==
    (Verified /\ change.kind = "flipS" /\ prev.vOut.ok) => ~vOut.ok

C3_Witness ==
    /\ Verified
    /\ change.kind = "flipS"
    /\ change.bit = 8 * sizeFr - 1
    /\ prev.vOut.ok
    /\ prev.change.kind = "signed"
    /\ ~vOut.ok
    /\ vIn.sig.S # prev.vIn.sig.S
    /\ vIn.sig.R = prev.vIn.sig.R

\* the challenge digest of a Verify call, from the layout of the hashed data
ChallengeOf(in, kind) ==
    HashSum([kind |-> kind,
             buf |-> Concat(FrBytes(in.sig.R.X),
                     Concat(FrBytes(in.sig.R.Y),
                     Concat(FrBytes(in.pub.A.X),
                     Concat(FrBytes(in.pub.A.Y), in.message))))])

C7_ScalarIsReversal ==
    keys # None =>
        LET h == Prune(Sum512(seed))
        IN  \A i \in 0..(sizeFr - 1) : keys.priv.scalar[i] = h[sizeFr - 1 - i]

\* a key whose scalar starts with randSrc[0], the digest byte h[32]
C7_TakesRandSrc ==
    /\ keys # None
    /\ keys.priv.scalar[0] = keys.priv.randSrc[0]
    /\ keys.priv.scalar[0] # Prune(Sum512(seed))[sizeFr - 1]

\* C8: for a signature whose R is not on the curve, Verify returns the
\* point-not-on-curve error and does not return true (the hash write failing
\* aside, which returns its own error first).
C8_OffCurveRRejected ==
    (Verified /\ ~IsOnCurve(vIn.sig.R) /\ IsOnCurve(vIn.pub.A)
        /\ vOut.hFunc.kind # "failing")
    => (~vOut.ok /\ vOut.err = errNotOnCurve)

\* a signature with R off the curve that Verify accepts
C8_OffCurveRAccepted ==
    /\ Verified
    /\ ~IsOnCurve(vIn.sig.R)
    /\ vOut.ok
    /\ vOut.err = "nil"

\* C9: S of a signature returned without error is the 32-byte big-endian
\* encoding, zeros in front, of (r + c * scalar) mod Order, r the blinding
\* factor and c the challenge digest; so S as an integer is below Order.
C9_SIsReducedAndPadded ==
    (signed # None /\ signed.err = "nil") =>
        LET q == GetEdwardsCurve.Order
            r == BytesMod(BlindingFactor(keys.priv, message), q)
            c == BytesMod(HashSum(signed.hFunc), q)
            k == BytesMod(keys.priv.scalar, q)
            s == (r + c * k) % q
        IN  /\ signed.sig.S = Encode32(s)
            /\ \E n \in 0..(q - 1) : signed.sig.S = Encode32(n)

\* a signature whose challenge digest, as an integer, is above Order
C9_Witness ==
    /\ signed # None
    /\ signed.err = "nil"
    /\ signed.hFunc.kind = "h32"
    /\ HashSum(signed.hFunc)[0] > 0
    /\ signed.sig.S[0] = 0
    /\ signed.sig.S # Zeros(sizeFr)

\* ------------------------------------- properties of the concurrent calls
\* no other call has been given the hash instance of the call of p
OwnInstance(p) ==
    \A q \in Procs \ {p} : call[q] = None \/ call[q].hf # call[p].hf

SameAsAlone ==
    \A p \in Procs :
        (cpc[p] = "done" /\ OwnInstance(p)) =>
            ret[p] = alone[[op |-> call[p].op, message |-> call[p].message]]

\* a step is of one goroutine p; it leaves the variables and the result of
\* the other calls, every hash instance but the one of p, and the objects
\* the calls are given
OnlyOwnHashTouched ==
    \E p \in Procs :
        /\ \A q \in Procs \ {p} :
            /\ cpc'[q] = cpc[q]
            /\ call'[q] = call[q]
            /\ local'[q] = local[q]
            /\ ret'[q] = ret[q]
        /\ \A h \in HashIds :
            hashes'[h] # hashes[h] => (call'[p] # None /\ call'[p].hf = h)
        /\ objects' = objects

\* C5: in every interleaving, a Sign or Verify call whose hash instance no
\* other call uses returns what it returns when run alone; and a step of a
\* call changes nothing another call reads but the hash instance it was given.
C5_Isolation == []SameAsAlone /\ [][OnlyOwnHashTouched]_vars

\* a Sign and a Verify call, each with its own instance, both returned
C5_Witness ==
    /\ cpc[1] = "done"
    /\ cpc[2] = "done"
    /\ call[1].hf # call[2].hf
    /\ call[1].op = "Sign"
    /\ call[2].op = "Verify"
    /\ call[1].message # call[2].message
    /\ ret[1].err = "nil"
    /\ ret[2].ok

\* ---------------------------------------- properties of the merklesum test
\* C10: for every leaf index, the path built for it, which the plain
\* verifier accepts, satisfies the circuit.
C10_CircuitAcceptsPath ==
    (mpc \in {"solved", "failed"} /\ verified = TRUE) => solved = "satisfied"

\* a path the plain verifier accepts and the circuit does not
C10_CircuitRejectsPath ==
    /\ mpc = "failed"
    /\ verified = TRUE
    /\ proofIndex = numLeaves - 1
    /\ solved # "satisfied"

====
